---- MODULE Spec2Model ----
(***************************************************************************)
(* csv2Redshift (src/README.md, lines 129-431): the Lambda that waits for  *)
(* the CSV listing under processed/ to become stable, then, file by file,  *)
(* ensures the target table, COPYs the file into Redshift, verifies the    *)
(* row count and moves the file to completed/.                             *)
(*                                                                         *)
(* Representation.  An object key "processed/<base>.csv" is represented by *)
(* <base>, a sequence of one-character strings; the key of its copy under  *)
(* completed/ is represented by the same <base> in the set `completed`.    *)
(* Time is counted in seconds of time.sleep; the duration of a remote call *)
(* itself is taken as 0.                                                   *)
(***************************************************************************)
EXTENDS Integers, Sequences, FiniteSets, TLC

\* ------------------------------------------------------------------------
\* Characters and clean_column_name
\* ------------------------------------------------------------------------

LowerChars == {"a", "b", "c", "d", "e", "l", "m", "n", "o", "u"}

UpperChars == {"A", "B"}

DigitChars == {"1"}

\* str.isalnum of one character
isalnum(c) == c \in LowerChars \cup UpperChars \cup DigitChars

\* str.isdigit of one character
isdigit(c) == c \in DigitChars

\* str.lower of one character
lower(c) == IF c = "A" THEN "a" ELSE IF c = "B" THEN "b" ELSE c

unnamed_column == <<"u", "n", "n", "a", "m", "e", "d", "_", "c", "o", "l", "u", "m", "n">>

col_prefix == <<"c", "o", "l", "_">>

\* ''.join(c if c.isalnum() else '_' for c in str(column).lower())
CleanChars(column) ==
    [i \in 1..Len(column) |->
        IF isalnum(lower(column[i])) THEN lower(column[i]) ELSE "_"]

\* Mutant: the prefix is added whatever the first character is.
clean_column_name_AlwaysPrefix(column) ==
    IF column = <<>> THEN unnamed_column
    ELSE col_prefix \o CleanChars(column)

clean_column_name(column) ==
    IF column = <<>> THEN unnamed_column
    ELSE IF isdigit(CleanChars(column)[1]) THEN col_prefix \o CleanChars(column)
    ELSE CleanChars(column)

\* ------------------------------------------------------------------------
\* Files, tables, program constants
\* ------------------------------------------------------------------------

\* Base names of the objects the upstream conversion may write under
\* processed/: a.csv and A.csv map to the same table, 1.csv to col_1.
Keys == {<<"a">>, <<"A">>, <<"1">>}

\* file_name = splitext(basename(key))[0]; table_name = clean_column_name(file_name)
TableName(k) == clean_column_name(k)

TableNames == {TableName(k) : k \in Keys}

NoFile == [parse |-> FALSE, schema |-> "absent", rows |-> 0]

\* An object that pd.read_csv rejects.
Malformed == [parse |-> FALSE, schema |-> "none", rows |-> 0]

\* A parseable CSV: the column definitions create_table derives from it
\* (an abstract schema id) and its number of data rows.
Csv(s, n) == [parse |-> TRUE, schema |-> s, rows |-> n]

\* What the upstream conversion may write for each key.
ContentOptions(k) ==
    IF k = <<"a">> THEN {Csv("s1", 1)}
    ELSE IF k = <<"A">> THEN {Csv("s2", 1), Csv("s1", 1), Csv("s1", 0)}
    ELSE {Malformed, Csv("s1", 1)}

\* Injected faults of the remote services in one behaviour (a call that
\* raises, a statement that fails by itself or hangs).
MaxFaults == 1

\* A statement that does not hang is read as terminal within this many
\* describe_statement calls.
MaxSlowPolls == 2

RunIds == {1, 2}

max_retries == 60

max_wait_time == 300

SleepInterval == 5

StableThreshold == 12

\* ------------------------------------------------------------------------
\* Frontend: initial state of the Dashboard and FileUpload components
\* ------------------------------------------------------------------------

\* Most handleUpload calls of one component considered.
MaxUploads == 3

\* Latest value of Date.now() considered (the earliest is 1).
MaxClock == 2

Types == {"xlsx", "csv"}

\* fileId = `${type}-${Date.now()}`
FileIds == Types \X (1..MaxClock)

UploadSlots == 1..MaxUploads

\* A handleUpload call that has not been made.
NoUpload == [phase |-> "none", type |-> "none", fileId |-> <<"none", 0>>]

\* useState initial values of Dashboard; an absent key of uploadProgress is
\* -1, an absent key of uploadStatus is "".
InitialDashboard ==
    [uploadProgress |-> [f \in FileIds |-> -1],
     uploadStatus |-> [f \in FileIds |-> ""],
     selectedFiles |-> [t \in Types |-> FALSE],
     stats |-> [totalUploads |-> 0, successfulUploads |-> 0, failedUploads |-> 0],
     now |-> 1,
     uploads |-> [u \in UploadSlots |-> NoUpload]]

\* useState initial values of FileUpload; selectedFile is "" for null.
InitialFileUpload ==
    [uploadProgress |-> 0, uploadStatus |-> "", selectedFile |-> "",
     uploads |-> [u \in UploadSlots |-> "none"]]

\* ------------------------------------------------------------------------
\* State
\* ------------------------------------------------------------------------

VARIABLES
    content,       \* key -> the file the upstream conversion wrote (NoFile: none yet)
    producerDone,  \* the upstream conversion has finished
    pending,       \* keys present under processed/
    completed,     \* keys present under completed/
    tschema,       \* table name -> "absent" or the schema it was created with
    loaded,        \* key -> number of rows of that file in table TableName(key)
    orphans,       \* statements still RUNNING whose waiter gave up
    faults,        \* faults injected so far (capped at MaxFaults)
    run,           \* run id -> state of that invocation of lambda_handler
    calc,          \* the DataFrame column create_table is deriving a definition from
    dashboard,     \* state of the Dashboard component and of its handleUpload calls
    fileUpload     \* state of the FileUpload component and of its handleUpload calls

vars == <<content, producerDone, pending, completed, tschema, loaded, orphans, faults, run, calc,
          dashboard, fileUpload>>

env == <<content, producerDone, pending, completed, tschema, loaded, orphans, faults, calc,
         dashboard, fileUpload>>

\* The wait_for_query_completion call that ended last: the statement it
\* waited for, how it ended, the last status it read and the
\* describe_statement calls it made.
NoWait == [stmt |-> "none", exit |-> "none", observed |-> "none", polls |-> 0]

\* The wait_for_file_processing call that ended last: how it ended, the
\* last listing it saw and for how many consecutive polls it saw it.
NoDiscovery == [exit |-> "none", lastListing |-> {}, sameCount |-> 0]

\* No column is being worked on.
NoColumn ==
    [stage |-> "none", column |-> <<>>, cleaned |-> <<>>, again |-> <<>>,
     values |-> <<>>, dtype |-> "none", sqltype |-> <<"none", 0>>,
     frame |-> <<>>, column_definitions |-> <<>>]

IdleRun ==
    [pc |-> "idle", triggering_key |-> <<>>,
     previous_files |-> {}, stable_count |-> 0, elapsed |-> 0,
     discovery |-> NoDiscovery,
     files_to_process |-> {}, todo |-> {},
     key |-> <<>>, retry_count |-> 0, hung |-> FALSE, wait |-> NoWait,
     raised |-> {}, checkError |-> {}, verified |-> {},
     processed_files |-> <<>>, failed_files |-> <<>>, statusCode |-> 0]

Init ==
    /\ content = [k \in Keys |-> NoFile]
    /\ producerDone = FALSE
    /\ pending = {}
    /\ completed = {}
    /\ tschema = [t \in TableNames |-> "absent"]
    /\ loaded = [k \in Keys |-> 0]
    /\ orphans = {}
    /\ faults = 0
    /\ run = [r \in RunIds |-> IdleRun]
    /\ dashboard = InitialDashboard
    /\ fileUpload = InitialFileUpload
    /\ calc = NoColumn

SetRun(r, rec) == run' = [run EXCEPT ![r] = rec]

CanFault == faults < MaxFaults

Fault == faults' = IF faults < MaxFaults THEN faults + 1 ELSE faults

\* SELECT COUNT(*) FROM table
RowCount(t) ==
    LET RECURSIVE Sum(_)
        Sum(S) == IF S = {} THEN 0
                  ELSE LET k == CHOOSE x \in S : TRUE
                       IN  (IF TableName(k) = t THEN loaded[k] ELSE 0) + Sum(S \ {k})
    IN  Sum(Keys)

\* ------------------------------------------------------------------------
\* Environment: the upstream Excel-to-CSV conversion
\* ------------------------------------------------------------------------

\* A run that has not attempted a file yet.  The loop reads and writes only
\* the keys of its batch, so what the conversion writes later does not
\* interact with it and is left out.
NotYetLooping(me) ==
    \/ me.pc \in {"idle", "discover"}
    \/ me.pc = "loop" /\ me.todo = me.files_to_process

\* The conversion writes one more CSV under processed/.
Upload(k, c) ==
    /\ ~producerDone
    /\ \A r \in RunIds : NotYetLooping(run[r])
    /\ content[k] = NoFile
    /\ content' = [content EXCEPT ![k] = c]
    /\ pending' = pending \cup {k}
    /\ UNCHANGED <<dashboard, fileUpload, calc, producerDone, completed, tschema, loaded, orphans, faults, run>>

ProducerStop ==
    /\ ~producerDone
    /\ \A r \in RunIds : NotYetLooping(run[r])
    /\ producerDone' = TRUE
    /\ UNCHANGED <<dashboard, fileUpload, calc, content, pending, completed, tschema, loaded, orphans, faults, run>>

\* ------------------------------------------------------------------------
\* lambda_handler: start, discovery
\* ------------------------------------------------------------------------

\* The S3 event: the triggering key, or a payload without Records.
Events == {[valid |-> TRUE, key |-> k] : k \in Keys} \cup {[valid |-> FALSE, key |-> <<>>]}

Quiet(r) == \A q \in RunIds \ {r} : run[q].pc \in {"idle", "done", "error500"}

InOrder(r) == \A q \in RunIds : q < r => run[q].pc # "idle"

\* event['Records'][0]['s3'][...]: a malformed event raises, and the outer
\* handler returns statusCode 500; otherwise triggering_key is logged and
\* wait_for_file_processing starts.  triggering_key is kept until the first
\* file is fetched (nothing reads it after the log line).
Trigger(r, ev) ==
    /\ run[r].pc = "idle"
    /\ InOrder(r)
    /\ IF ~ev.valid
       THEN SetRun(r, [run[r] EXCEPT !.pc = "error500", !.statusCode = 500])
       ELSE SetRun(r, [run[r] EXCEPT !.triggering_key = ev.key, !.pc = "discover"])
    /\ UNCHANGED env

\* list_processed_files: the CSV keys under processed/, [] when the call raises.
list_processed_files(ok) == IF ok THEN pending ELSE {}

\* Mutant: the counter is not reset when the listing changes.
NextStableCount_NoReset(current_files, previous_files, stable_count) == stable_count + 1

\* the comparison of one iteration of wait_for_file_processing
NextStableCount(current_files, previous_files, stable_count) ==
    IF current_files = previous_files THEN stable_count + 1 ELSE 0

\* Mutant: the remembered set is not replaced when the listing changes.
NextPreviousFiles_Stale(current_files, previous_files) == previous_files

NextPreviousFiles(current_files, previous_files) ==
    IF current_files = previous_files THEN previous_files ELSE current_files

IsStable(current_files, previous_files, stable_count) ==
    /\ current_files = previous_files
    /\ stable_count + 1 >= StableThreshold

\* return list(previous_files) after the loop
TimeoutResult(previous_files) == previous_files

\* Mutant: the triggering key is added to the batch.
Returned_WithTriggeringKey(me, files, how) ==
    [me EXCEPT !.files_to_process = files \cup {me.triggering_key},
               !.todo = files \cup {me.triggering_key},
               !.previous_files = {}, !.stable_count = 0, !.elapsed = 0,
               !.discovery.exit = how,
               !.pc = "loop"]

\* Mutant: instead of returning, the discovery starts over.
Returned_StartsOver(me, files, how) ==
    [me EXCEPT !.previous_files = {}, !.stable_count = 0, !.elapsed = 0,
               !.discovery = NoDiscovery]

\* wait_for_file_processing returns `files` to lambda_handler; its locals
\* end with it.
Returned(me, files, how) ==
    [me EXCEPT !.files_to_process = files, !.todo = files,
               !.previous_files = {}, !.stable_count = 0, !.elapsed = 0,
               !.discovery.exit = how,
               !.pc = "loop"]

\* The listing this poll saw, and for how many consecutive polls.
Saw(d, current_files) ==
    [d EXCEPT !.sameCount = IF d.sameCount > 0 /\ current_files = d.lastListing
                            THEN d.sameCount + 1 ELSE 1,
              !.lastListing = current_files]

\* One iteration of the while loop of wait_for_file_processing; ok: the
\* listing call returns (FALSE: it raises).
PollStep(r, ok) ==
    /\ run[r].pc = "discover"
    /\ run[r].elapsed < max_wait_time
    /\ LET current_files == list_processed_files(ok)
           me == [run[r] EXCEPT !.discovery = Saw(run[r].discovery, current_files)]
       IN  IF IsStable(current_files, me.previous_files, me.stable_count)
           THEN SetRun(r, Returned(me, current_files, "stable"))
           ELSE SetRun(r, [me EXCEPT
                      !.stable_count = NextStableCount(current_files, me.previous_files, me.stable_count),
                      !.previous_files = NextPreviousFiles(current_files, me.previous_files),
                      !.elapsed = me.elapsed + SleepInterval])
    /\ UNCHANGED <<dashboard, fileUpload, calc, content, producerDone, pending, completed, tschema, loaded, orphans>>

\* An iteration while the object store answers, but for injected faults.
Poll(r, ok) ==
    /\ ok \/ CanFault
    /\ PollStep(r, ok)
    /\ IF ok THEN UNCHANGED faults ELSE Fault

\* An iteration while the object store is unreachable: the listing raises.
PollUnreachable(r) ==
    /\ PollStep(r, FALSE)
    /\ UNCHANGED faults

\* The loop condition fails: "Reached maximum wait time", return previous_files.
DiscoverTimeout(r) ==
    /\ run[r].pc = "discover"
    /\ run[r].elapsed >= max_wait_time
    /\ SetRun(r, Returned(run[r], TimeoutResult(run[r].previous_files), "timeout"))
    /\ UNCHANGED env

\* ------------------------------------------------------------------------
\* lambda_handler: the per-file loop
\* ------------------------------------------------------------------------

\* Mutant: the handler logs the error and records nothing.
FileFailed_Swallowed(me, msg) ==
    [me EXCEPT !.retry_count = 0, !.hung = FALSE, !.pc = "loop"]

\* Mutant: the handler records the failure and leaves the loop (break).
FileFailed_Break(me, msg) ==
    [me EXCEPT !.failed_files = Append(me.failed_files, [file |-> me.key, error |-> msg]),
               !.retry_count = 0, !.hung = FALSE,
               !.todo = {},
               !.pc = "loop"]

\* Mutant: the error of a file reaches the outer handler of lambda_handler.
FileFailed_Propagates(me, msg) ==
    [me EXCEPT !.retry_count = 0, !.hung = FALSE,
               !.pc = "error500", !.statusCode = 500]

\* except Exception as e: failed_files.append({"file": key, "error": str(e)}); continue
FileFailed(me, msg) ==
    [me EXCEPT !.failed_files = Append(me.failed_files, [file |-> me.key, error |-> msg]),
               !.retry_count = 0, !.hung = FALSE,
               !.pc = "loop"]

\* An exception with message msg leaves the try body of the loop.
Raise(me, msg) == FileFailed([me EXCEPT !.raised = me.raised \cup {me.key}], msg)

\* Mutant: the object is parsed only when the table has to be created.
FetchAndParse_ParseLater(r, k, ok) ==
    /\ run[r].pc = "loop"
    /\ k \in run[r].todo
    /\ ok \/ CanFault
    /\ LET me == [run[r] EXCEPT !.key = k, !.todo = run[r].todo \ {k},
                                !.triggering_key = <<>>,
                                !.discovery = NoDiscovery, !.wait = NoWait]
       IN  IF ~ok \/ k \notin pending
           THEN SetRun(r, Raise(me, "get_object failed"))
           ELSE SetRun(r, [me EXCEPT !.pc = "check_exec"])
    /\ IF ok THEN UNCHANGED faults ELSE Fault
    /\ UNCHANGED <<dashboard, fileUpload, calc, content, producerDone, pending, completed, tschema, loaded, orphans>>

\* s3.get_object, decode, pd.read_csv for the next key of files_to_process
\* (a list made from a set: any order).
FetchAndParse(r, k, ok) ==
    /\ run[r].pc = "loop"
    /\ k \in run[r].todo
    /\ ok \/ CanFault
    /\ LET me == [run[r] EXCEPT !.key = k, !.todo = run[r].todo \ {k},
                                !.triggering_key = <<>>,
                                !.discovery = NoDiscovery, !.wait = NoWait]
       IN  IF ~ok \/ k \notin pending
           THEN SetRun(r, Raise(me, "get_object failed"))
           ELSE IF ~content[k].parse
           THEN SetRun(r, Raise(me, "Error tokenizing data"))
           ELSE SetRun(r, [me EXCEPT !.pc = "check_exec"])
    /\ IF ok THEN UNCHANGED faults ELSE Fault
    /\ UNCHANGED <<dashboard, fileUpload, calc, content, producerDone, pending, completed, tschema, loaded, orphans>>

\* status_response['Status']
Statuses == {"RUNNING", "FINISHED", "FAILED", "ABORTED"}

ExecPcs == {"check_exec", "create_exec", "copy_exec", "verify_exec"}

WaitPcs == {"check_wait", "create_wait", "copy_wait", "verify_wait"}

WaitOf(pc) ==
    IF pc = "check_exec" THEN "check_wait"
    ELSE IF pc = "create_exec" THEN "create_wait"
    ELSE IF pc = "copy_exec" THEN "copy_wait"
    ELSE "verify_wait"

\* redshift_data.execute_statement of check_table_exists, create_table and
\* load_data_to_redshift (COPY, then SELECT COUNT(*)).  A raise inside
\* check_table_exists is caught there and reads as "table absent".
ExecStatement(r, ok) ==
    /\ run[r].pc \in ExecPcs
    /\ ok \/ CanFault
    /\ LET me == run[r]
       IN  IF ok
           THEN SetRun(r, [me EXCEPT !.retry_count = 0, !.hung = FALSE, !.wait = NoWait,
                                     !.pc = WaitOf(me.pc)])
           ELSE IF me.pc = "check_exec"
           THEN SetRun(r, [me EXCEPT !.checkError = me.checkError \cup {me.key},
                                     !.wait = NoWait, !.pc = "create_exec"])
           ELSE SetRun(r, Raise([me EXCEPT !.wait = NoWait], "execute_statement failed"))
    /\ IF ok THEN UNCHANGED faults ELSE Fault
    /\ UNCHANGED <<dashboard, fileUpload, calc, content, producerDone, pending, completed, tschema, loaded, orphans>>

\* ------------------------------------------------------------------------
\* Environment: the query engine runs the statements asynchronously
\* ------------------------------------------------------------------------

\* Mutant: CREATE OR REPLACE, the table takes the columns of the file.
CreateEffect_Replace(k) == [tschema EXCEPT ![TableName(k)] = content[k].schema]

\* CREATE TABLE IF NOT EXISTS t (columns of the file k)
CreateEffect(k) ==
    IF tschema[TableName(k)] = "absent"
    THEN [tschema EXCEPT ![TableName(k)] = content[k].schema]
    ELSE tschema

\* Mutant: a file already loaded is skipped.
CopyRows_OncePerFile(k) ==
    IF tschema[TableName(k)] = content[k].schema /\ loaded[k] = 0 THEN content[k].rows ELSE 0

\* The rows COPY appends from file k: all of them when the file fits the
\* table; none when every row is rejected (within MAXERROR) by a table of
\* another shape.
CopyRows(k) ==
    IF tschema[TableName(k)] = content[k].schema THEN content[k].rows ELSE 0

\* COPY can run only when the table and the object exist.
CopyCanRun(k) == tschema[TableName(k)] # "absent" /\ k \in pending

\* COPY may end FAILED by itself (no injected fault): a missing table or
\* object, or a file that does not fit the table's shape.
CopyMustOrMayFail(k) == ~CopyCanRun(k) \/ tschema[TableName(k)] # content[k].schema

StmtCanFinish(pc, k) ==
    IF pc = "copy_wait" THEN CopyCanRun(k)
    ELSE IF pc = "verify_wait" THEN tschema[TableName(k)] # "absent"
    ELSE TRUE

\* Mutant: a plain CREATE TABLE, which fails when the table exists.
StmtFailsNaturally_PlainCreate(pc, k) ==
    \/ ~StmtCanFinish(pc, k)
    \/ pc = "copy_wait" /\ CopyMustOrMayFail(k)
    \/ pc = "create_wait" /\ tschema[TableName(k)] # "absent"

\* A statement may end FAILED or ABORTED by itself; any other failure is an
\* injected fault.
StmtFailsNaturally(pc, k) ==
    \/ ~StmtCanFinish(pc, k)
    \/ pc = "copy_wait" /\ CopyMustOrMayFail(k)

\* What a SELECT returns when it finishes now: the count of
\* check_table_exists or of the verification (-1: not a SELECT).
StmtResult(pc, k) ==
    IF pc = "check_wait" THEN (IF tschema[TableName(k)] # "absent" THEN 1 ELSE 0)
    ELSE IF pc = "verify_wait" THEN RowCount(TableName(k))
    ELSE -1

\* A statement whose waiter gave up finishes later.
OrphanFinish(o) ==
    /\ o \in orphans
    /\ o.kind = "copy_wait" => CopyCanRun(o.key)
    /\ tschema' = IF o.kind = "create_wait" THEN CreateEffect(o.key) ELSE tschema
    /\ loaded' = IF o.kind = "copy_wait"
                 THEN [loaded EXCEPT ![o.key] = loaded[o.key] + CopyRows(o.key)]
                 ELSE loaded
    /\ orphans' = orphans \ {o}
    /\ UNCHANGED <<dashboard, fileUpload, calc, content, producerDone, pending, completed, faults, run>>

\* ------------------------------------------------------------------------
\* wait_for_query_completion
\* ------------------------------------------------------------------------

\* Mutant: ABORTED is not treated as terminal.
WaitStep_IgnoreAborted(status, retry_count) ==
    IF status = "FINISHED" THEN "return"
    ELSE IF status = "FAILED" THEN "raise_failed"
    ELSE IF retry_count + 1 < max_retries THEN "again"
    ELSE "raise_timeout"


\* What one iteration of the while loop does with the status it reads:
\* "return", "raise_failed", "raise_timeout" (the loop ends after this
\* iteration) or "again".
WaitStep(status, retry_count) ==
    IF status = "FINISHED" THEN "return"
    ELSE IF status \in {"FAILED", "ABORTED"} THEN "raise_failed"
    ELSE IF retry_count + 1 < max_retries THEN "again"
    ELSE "raise_timeout"

\* Mutant: the table is always reported present.
TableExists_Always(result) == TRUE

\* check_table_exists: result and result.get('Records') and count > 0
TableExists(result) == result > 0

\* Mutant: a zero count is accepted.
VerifyVerdict_NoZeroCheck(result) ==
    IF result < 0 THEN "Could not verify data load" ELSE "ok"

\* load_data_to_redshift: the verdict on the row-count result
\* (-1: no result could be fetched).
VerifyVerdict(result) ==
    IF result < 0 THEN "Could not verify data load"
    ELSE IF result = 0 THEN "No data was loaded"
    ELSE "ok"

\* Mutant: the file is moved as soon as the COPY has finished.
AfterReturn_SkipVerify(me, result) ==
    LET done == [me EXCEPT !.retry_count = 0, !.hung = FALSE]
    IN  IF me.pc = "check_wait"
        THEN [done EXCEPT !.pc = IF TableExists(result) THEN "copy_exec" ELSE "create_exec"]
        ELSE IF me.pc = "create_wait" THEN [done EXCEPT !.pc = "copy_exec"]
        ELSE [done EXCEPT !.pc = "move_copy"]

\* Where the caller of wait_for_query_completion goes when it returns
\* `result` (-1 for None).
AfterReturn(me, result) ==
    LET done == [me EXCEPT !.retry_count = 0, !.hung = FALSE]
    IN  IF me.pc = "check_wait"
        THEN [done EXCEPT !.pc = IF TableExists(result) THEN "copy_exec" ELSE "create_exec"]
        ELSE IF me.pc = "create_wait" THEN [done EXCEPT !.pc = "copy_exec"]
        ELSE IF me.pc = "copy_wait" THEN [done EXCEPT !.pc = "verify_exec"]
        ELSE LET seen == [done EXCEPT !.verified = done.verified \cup {<<me.key, result>>}]
             IN  IF VerifyVerdict(result) = "ok" THEN [seen EXCEPT !.pc = "move_copy"]
                 ELSE Raise(seen, VerifyVerdict(result))

\* Mutant: check_table_exists lets the exception through.
AfterRaise_CheckPropagates(me, msg) == Raise(me, msg)

\* Where the caller goes when wait_for_query_completion raises.
AfterRaise(me, msg) ==
    IF me.pc = "check_wait"
    THEN [me EXCEPT !.checkError = me.checkError \cup {me.key},
                    !.retry_count = 0, !.hung = FALSE,
                    !.pc = "create_exec"]
    ELSE Raise(me, msg)

\* f"Query failed with status {status}: ..."
QueryFailed(status) ==
    IF status = "FAILED" THEN "Query failed with status FAILED"
    ELSE "Query failed with status ABORTED"

\* One iteration of wait_for_query_completion: describe_statement, then
\* return, raise or sleep.  `status` is the status the call reads; a
\* statement read as FINISHED took effect since the previous poll (the
\* effect is applied here).  `fetched`: get_statement_result gives the
\* records (FALSE: ResourceNotFoundException, result None).
Describe(r, status, fetched) ==
    /\ run[r].pc \in WaitPcs
    /\ run[r].retry_count < max_retries
    /\ IF status = "RUNNING"
       THEN run[r].hung \/ run[r].retry_count + 1 < MaxSlowPolls \/ CanFault
       ELSE ~run[r].hung
    /\ status = "FINISHED" => StmtCanFinish(run[r].pc, run[r].key)
    /\ status \in {"FAILED", "ABORTED"} =>
           StmtFailsNaturally(run[r].pc, run[r].key) \/ CanFault
    /\ fetched \/ (CanFault /\ status = "FINISHED"
                            /\ run[r].pc \in {"check_wait", "verify_wait"})
    /\ LET k == run[r].key
           step == WaitStep(status, run[r].retry_count)
           me == [run[r] EXCEPT !.wait =
                     [stmt |-> run[r].pc,
                      exit |-> IF step = "again" THEN "none" ELSE step,
                      observed |-> status,
                      polls |-> run[r].retry_count + 1]]
           hangs == status = "RUNNING" /\ ~me.hung /\ me.retry_count + 1 >= MaxSlowPolls
           injected == \/ ~fetched
                       \/ hangs
                       \/ step = "raise_failed" /\ ~StmtFailsNaturally(me.pc, k)
       IN  /\ IF step = "return"
              THEN SetRun(r, AfterReturn(me, IF fetched THEN StmtResult(me.pc, k) ELSE -1))
              ELSE IF step = "raise_failed"
              THEN SetRun(r, AfterRaise(me, QueryFailed(status)))
              ELSE IF step = "raise_timeout"
              THEN SetRun(r, AfterRaise(me, "Query timed out waiting for completion"))
              ELSE SetRun(r, [me EXCEPT !.retry_count = me.retry_count + 1,
                                        !.hung = me.hung \/ hangs])
           /\ tschema' = IF status = "FINISHED" /\ me.pc = "create_wait"
                         THEN CreateEffect(k) ELSE tschema
           /\ loaded' = IF status = "FINISHED" /\ me.pc = "copy_wait"
                        THEN [loaded EXCEPT ![k] = loaded[k] + CopyRows(k)] ELSE loaded
           /\ orphans' = IF step = "raise_timeout" /\ me.pc \in {"create_wait", "copy_wait"}
                         THEN orphans \cup {[kind |-> me.pc, key |-> k, run |-> r]}
                         ELSE orphans
           /\ IF injected THEN Fault ELSE UNCHANGED faults
    /\ UNCHANGED <<dashboard, fileUpload, calc, content, producerDone, pending, completed>>

\* ------------------------------------------------------------------------
\* move_to_completed and the end of the run
\* ------------------------------------------------------------------------

\* Mutant: the delete follows the copy whether or not the copy succeeded.
MoveCopy_Unchecked(r, ok) ==
    /\ run[r].pc = "move_copy"
    /\ ok \/ CanFault
    /\ completed' = IF ok /\ run[r].key \in pending
                    THEN completed \cup {run[r].key} ELSE completed
    /\ SetRun(r, [run[r] EXCEPT !.wait = NoWait, !.pc = "move_delete"])
    /\ IF ok THEN UNCHANGED faults ELSE Fault
    /\ UNCHANGED <<dashboard, fileUpload, calc, content, producerDone, pending, tschema, loaded, orphans>>

\* s3_client.copy_object(processed/key -> completed/key)
MoveCopy(r, ok) ==
    /\ run[r].pc = "move_copy"
    /\ ok \/ CanFault
    /\ IF ok /\ run[r].key \in pending
       THEN /\ completed' = completed \cup {run[r].key}
            /\ SetRun(r, [run[r] EXCEPT !.wait = NoWait, !.pc = "move_delete"])
       ELSE /\ UNCHANGED completed
            /\ SetRun(r, Raise([run[r] EXCEPT !.wait = NoWait], "copy_object failed"))
    /\ IF ok THEN UNCHANGED faults ELSE Fault
    /\ UNCHANGED <<dashboard, fileUpload, calc, content, producerDone, pending, tschema, loaded, orphans>>

\* Mutant: the file is reported as processed although delete_object raised.
MoveDelete_ReportsAnyway(r, ok) ==
    /\ run[r].pc = "move_delete"
    /\ ok \/ CanFault
    /\ pending' = IF ok THEN pending \ {run[r].key} ELSE pending
    /\ SetRun(r, [run[r] EXCEPT
           !.processed_files = Append(run[r].processed_files, run[r].key),
           !.pc = "loop"])
    /\ IF ok THEN UNCHANGED faults ELSE Fault
    /\ UNCHANGED <<dashboard, fileUpload, calc, content, producerDone, completed, tschema, loaded, orphans>>

\* s3_client.delete_object(processed/key); then processed_files.append(key)
MoveDelete(r, ok) ==
    /\ run[r].pc = "move_delete"
    /\ ok \/ CanFault
    /\ IF ok
       THEN /\ pending' = pending \ {run[r].key}
            /\ SetRun(r, [run[r] EXCEPT
                   !.processed_files = Append(run[r].processed_files, run[r].key),
                   !.pc = "loop"])
       ELSE /\ UNCHANGED pending
            /\ SetRun(r, Raise(run[r], "delete_object failed"))
    /\ IF ok THEN UNCHANGED faults ELSE Fault
    /\ UNCHANGED <<dashboard, fileUpload, calc, content, producerDone, completed, tschema, loaded, orphans>>

\* The for loop is exhausted: return statusCode 200 with both lists.
Finish(r) ==
    /\ run[r].pc = "loop"
    /\ run[r].todo = {}
    /\ SetRun(r, [run[r] EXCEPT !.discovery = NoDiscovery, !.wait = NoWait,
                                !.triggering_key = <<>>,
                                !.pc = "done", !.statusCode = 200])
    /\ UNCHANGED env

\* ------------------------------------------------------------------------
\* Specifications
\* ------------------------------------------------------------------------

\* The steps of the per-file loop of run r.
LoopStep(r) ==
    \/ \E k \in Keys : \E ok \in BOOLEAN : FetchAndParse(r, k, ok)
    \/ \E ok \in BOOLEAN : ExecStatement(r, ok)
    \/ \E status \in Statuses : \E fetched \in BOOLEAN : Describe(r, status, fetched)
    \/ \E ok \in BOOLEAN : MoveCopy(r, ok)
    \/ \E ok \in BOOLEAN : MoveDelete(r, ok)
    \/ Finish(r)

\* The steps of lambda_handler in run r.
RunStep(r) ==
    \/ \E ok \in BOOLEAN : Poll(r, ok)
    \/ DiscoverTimeout(r)
    \/ LoopStep(r)

\* The steps of the query engine besides those a waiter reads.
EngineStep == \E o \in orphans : OrphanFinish(o)

\* One invocation of lambda_handler while the upstream conversion runs.
Next ==
    \/ \E k \in Keys : \E c \in ContentOptions(k) : Upload(k, c)
    \/ ProducerStop
    \/ \E ev \in Events : Trigger(1, ev)
    \/ RunStep(1)
    \/ EngineStep

Spec == Init /\ [][Next]_vars

\* The Lambda runtime keeps executing a started invocation.
LiveSpec == Spec /\ WF_vars(RunStep(1))

\* Retries: the conversion has finished and every file is under processed/;
\* invocations follow one another, each starting after the previous one has
\* returned.  With a listing that changes at most by one injected listing
\* error, the max-wait exit of the discovery is out of reach.
InitRetry ==
    /\ content \in {f \in [Keys -> {Malformed} \cup {Csv(sc, n) : sc \in {"s1", "s2"}, n \in {0, 1}}] :
                       \A k \in Keys : f[k] \in ContentOptions(k)}
    /\ producerDone = TRUE
    /\ pending = Keys
    /\ completed = {}
    /\ tschema = [t \in TableNames |-> "absent"]
    /\ loaded = [k \in Keys |-> 0]
    /\ orphans = {}
    /\ faults = 0
    /\ run = [r \in RunIds |-> IdleRun]
    /\ dashboard = InitialDashboard
    /\ fileUpload = InitialFileUpload
    /\ calc = NoColumn

NextRetry ==
    \/ \E r \in RunIds : \E ev \in Events : Quiet(r) /\ Trigger(r, ev)
    \/ \E r \in RunIds : \E ok \in BOOLEAN : Poll(r, ok)
    \/ \E r \in RunIds : LoopStep(r)
    \/ EngineStep

SpecRetry == InitRetry /\ [][NextRetry]_vars

\* The Lambda runtime ends the invocation (time limit, process killed) in
\* the middle of a file: no result is returned.  A CREATE or COPY it was
\* waiting for goes on in the query engine.
Crash(r) ==
    /\ run[r].pc \in ExecPcs \cup WaitPcs \cup {"move_copy", "move_delete"}
    /\ CanFault
    /\ SetRun(r, [run[r] EXCEPT !.retry_count = 0, !.hung = FALSE, !.wait = NoWait,
                                !.pc = "crashed"])
    /\ orphans' = IF run[r].pc \in {"create_wait", "copy_wait"}
                  THEN orphans \cup {[kind |-> run[r].pc, key |-> run[r].key, run |-> r]}
                  ELSE orphans
    /\ Fault
    /\ UNCHANGED <<dashboard, fileUpload, calc, content, producerDone, pending, completed, tschema, loaded>>

\* Overlapping invocations: the conversion has finished with a.csv under
\* processed/, and two invocations run concurrently from any two starting
\* times; each may be interrupted.  The listing changes at most once (a.csv
\* is moved away) besides one injected listing error, so the max-wait exit
\* of the discovery is out of reach.
InitOverlap ==
    /\ content = [k \in Keys |-> IF k = <<"a">> THEN Csv("s1", 1) ELSE NoFile]
    /\ producerDone = TRUE
    /\ pending = {<<"a">>}
    /\ completed = {}
    /\ tschema = [t \in TableNames |-> "absent"]
    /\ loaded = [k \in Keys |-> 0]
    /\ orphans = {}
    /\ faults = 0
    /\ run = [r \in RunIds |-> IdleRun]
    /\ dashboard = InitialDashboard
    /\ fileUpload = InitialFileUpload
    /\ calc = NoColumn

NextOverlap ==
    \/ \E r \in RunIds : \E ev \in Events : Trigger(r, ev)
    \/ \E r \in RunIds : \E ok \in BOOLEAN : Poll(r, ok)
    \/ \E r \in RunIds : LoopStep(r)
    \/ \E r \in RunIds : Crash(r)
    \/ EngineStep

SpecOverlap == InitOverlap /\ [][NextOverlap]_vars

\* An outage of the object store: whatever is under processed/, every
\* listing call of the run raises.  The batch is then empty, so of the loop
\* only its end is left.
InitOutage ==
    /\ content \in {f \in [Keys -> {NoFile, Malformed} \cup {Csv(sc, n) : sc \in {"s1", "s2"}, n \in {0, 1}}] :
                       \A k \in Keys : f[k] \in ContentOptions(k) \cup {NoFile}}
    /\ producerDone \in BOOLEAN
    /\ pending = {k \in Keys : content[k] # NoFile}
    /\ completed = {}
    /\ tschema = [t \in TableNames |-> "absent"]
    /\ loaded = [k \in Keys |-> 0]
    /\ orphans = {}
    /\ faults = 0
    /\ run = [r \in RunIds |-> IdleRun]
    /\ dashboard = InitialDashboard
    /\ fileUpload = InitialFileUpload
    /\ calc = NoColumn

NextOutage ==
    \/ \E r \in RunIds : \E ev \in Events : Trigger(r, ev)
    \/ \E r \in RunIds : PollUnreachable(r)
    \/ \E r \in RunIds : Finish(r)

SpecOutage == InitOutage /\ [][NextOutage]_vars

\* ------------------------------------------------------------------------
\* create_table: the definition of one column
\* ------------------------------------------------------------------------

\* Longest column header considered.
MaxNameLen == 3

\* Characters of a header: a lower-case and an upper-case letter, a digit,
\* the underscore and a character that is not alphanumeric.
NameChars == {"a", "A", "1", "_", "-"}

RECURSIVE SeqsUpTo(_, _)
\* The sequences over S of length at most n.
SeqsUpTo(S, n) ==
    IF n = 0 THEN {<<>>}
    ELSE LET shorter == SeqsUpTo(S, n - 1)
         IN  shorter \cup {Append(q, x) : q \in {p \in shorter : Len(p) = n - 1}, x \in S}

Names == SeqsUpTo(NameChars, MaxNameLen)

\* clean_column_name is applied to a header (create_table) or a file name
\* (lambda_handler).
CleanName ==
    /\ calc.stage = "name"
    /\ calc' = [calc EXCEPT !.cleaned = clean_column_name(calc.column), !.stage = "cleaned"]
    /\ UNCHANGED <<dashboard, fileUpload, content, producerDone, pending, completed, tschema, loaded,
                   orphans, faults, run>>

\* clean_column_name is applied to a name it has produced.
CleanAgain ==
    /\ calc.stage = "cleaned"
    /\ calc' = [calc EXCEPT !.again = clean_column_name(calc.cleaned), !.stage = "recleaned"]
    /\ UNCHANGED <<dashboard, fileUpload, content, producerDone, pending, completed, tschema, loaded,
                   orphans, faults, run>>

InitNames ==
    /\ content = [k \in Keys |-> NoFile]
    /\ producerDone = FALSE
    /\ pending = {}
    /\ completed = {}
    /\ tschema = [t \in TableNames |-> "absent"]
    /\ loaded = [k \in Keys |-> 0]
    /\ orphans = {}
    /\ faults = 0
    /\ run = [r \in RunIds |-> IdleRun]
    /\ dashboard = InitialDashboard
    /\ fileUpload = InitialFileUpload
    /\ calc \in {[NoColumn EXCEPT !.stage = "name", !.column = n] : n \in Names}

NextNames == CleanName \/ CleanAgain

SpecNames == InitNames /\ [][NextNames]_vars

\* Most rows of a column considered.
MaxRows == 3

\* A cell of a CSV column as pd.read_csv sees it: the kind of literal and
\* the length of str(value) ('nan' for an empty cell).
Cell(kind, len) == [kind |-> kind, len |-> len]

Cells ==
    {Cell("null", 3), Cell("int", 1), Cell("decimal", 3), Cell("bool", 4),
     Cell("date", 10), Cell("text", 1), Cell("text", 200), Cell("text", 40000)}

Series == SeqsUpTo(Cells, MaxRows)

Kinds(values, S) == {i \in DOMAIN values : values[i].kind \in S}

\* values.dropna()
NonNull(values) == Kinds(values, {"int", "decimal", "bool", "date", "text"})

\* The dtype pd.read_csv (no parse_dates, no dtype argument) gives a column:
\* integers without an empty cell are int64; numbers are float64, as are
\* integers with an empty cell and a column of empty cells; True/False
\* without an empty cell is bool; anything else, date literals included, is
\* object.
read_csv_dtype(values) ==
    IF values = <<>> THEN "object"
    ELSE IF NonNull(values) = {} THEN "float64"
    ELSE IF NonNull(values) = Kinds(values, {"int"})
    THEN (IF NonNull(values) = DOMAIN values THEN "int64" ELSE "float64")
    ELSE IF NonNull(values) = Kinds(values, {"int", "decimal"}) THEN "float64"
    ELSE IF NonNull(values) = Kinds(values, {"bool"}) /\ NonNull(values) = DOMAIN values
    THEN "bool"
    ELSE "object"

RECURSIVE MaxLenOf(_)
\* values.astype(str).str.len().max()
MaxLenOf(values) ==
    IF values = <<>> THEN 0
    ELSE LET rest == MaxLenOf(Tail(values))
         IN  IF Head(values).len > rest THEN Head(values).len ELSE rest

Min(a, b) == IF a < b THEN a ELSE b

Max(a, b) == IF a > b THEN a ELSE b

\* Mutant: no upper clamp.
varchar_length_NoUpperClamp(max_length) == Max(max_length * 2, 256)

\* min(max(max_length * 2, 256), 65535)
varchar_length(max_length) == Min(Max(max_length * 2, 256), 65535)

\* detect_data_type of a Series with the given values and dtype; a type is
\* <<name, length>> (length 0 where the type has none).
detect_data_type(values, dtype) ==
    IF NonNull(values) = {} THEN <<"VARCHAR", 256>>
    ELSE IF dtype = "datetime64" THEN <<"TIMESTAMP", 0>>
    ELSE IF dtype = "bool" THEN <<"BOOLEAN", 0>>
    ELSE IF dtype = "int64" THEN <<"BIGINT", 0>>
    ELSE IF dtype = "float64" THEN <<"DECIMAL(18,2)", 0>>
    ELSE IF dtype = "object" THEN <<"VARCHAR", varchar_length(MaxLenOf(values))>>
    ELSE <<"VARCHAR", 256>>

\* df = pd.read_csv(...): the column gets its dtype.
ReadColumn ==
    /\ calc.stage = "values"
    /\ calc' = [calc EXCEPT !.dtype = read_csv_dtype(calc.values), !.stage = "read"]
    /\ UNCHANGED <<dashboard, fileUpload, content, producerDone, pending, completed, tschema, loaded,
                   orphans, faults, run>>

\* create_table: detect_data_type(df[col])
DetectType ==
    /\ calc.stage = "read"
    /\ calc' = [calc EXCEPT !.sqltype = detect_data_type(calc.values, calc.dtype),
                            !.stage = "typed"]
    /\ UNCHANGED <<dashboard, fileUpload, content, producerDone, pending, completed, tschema, loaded,
                   orphans, faults, run>>

InitTypes ==
    /\ content = [k \in Keys |-> NoFile]
    /\ producerDone = FALSE
    /\ pending = {}
    /\ completed = {}
    /\ tschema = [t \in TableNames |-> "absent"]
    /\ loaded = [k \in Keys |-> 0]
    /\ orphans = {}
    /\ faults = 0
    /\ run = [r \in RunIds |-> IdleRun]
    /\ dashboard = InitialDashboard
    /\ fileUpload = InitialFileUpload
    /\ calc \in {[NoColumn EXCEPT !.stage = "values", !.values = v] : v \in Series}

NextTypes == ReadColumn \/ DetectType

SpecTypes == InitTypes /\ [][NextTypes]_vars

\* Most columns of a parsed file considered.
MaxColumns == 3

\* Raw headers of a file: pd.read_csv makes the headers of one file
\* distinct, but distinct headers may sanitize to one name.
RawHeaders == {<<"a">>, <<"A">>, <<"1">>, <<"a", "-">>, <<"a", "_">>}

ColumnValues == {<<Cell("int", 1)>>, <<Cell("text", 1)>>}

\* A parsed file: its columns in file order, each a header and its values.
Frames ==
    {f \in SeqsUpTo([name : RawHeaders, values : ColumnValues], MaxColumns) :
        \A i \in DOMAIN f : \A j \in DOMAIN f : i # j => f[i].name # f[j].name}

RECURSIVE DictOf(_)
\* A dict built from <<key, value>> pairs in order, as the list of its
\* items: a key met again keeps its place and takes the later value.
DictOf(pairs) ==
    IF pairs = <<>> THEN <<>>
    ELSE LET front == DictOf(SubSeq(pairs, 1, Len(pairs) - 1))
             last == pairs[Len(pairs)]
         IN  IF \E i \in DOMAIN front : front[i][1] = last[1]
             THEN [i \in DOMAIN front |-> IF front[i][1] = last[1] THEN last ELSE front[i]]
             ELSE Append(front, last)

\* columns = {clean_column_name(col): detect_data_type(df[col]) for col in df.columns};
\* column_definitions has one entry per item of that dict.
column_definitions(df) ==
    DictOf([i \in DOMAIN df |->
               <<clean_column_name(df[i].name),
                 detect_data_type(df[i].values, read_csv_dtype(df[i].values))>>])

\* create_table builds the CREATE TABLE statement for the parsed file.
BuildCreateTable ==
    /\ calc.stage = "frame"
    /\ calc' = [calc EXCEPT !.column_definitions = column_definitions(calc.frame),
                            !.stage = "sql"]
    /\ UNCHANGED <<dashboard, fileUpload, content, producerDone, pending, completed, tschema, loaded,
                   orphans, faults, run>>

InitColumns ==
    /\ content = [k \in Keys |-> NoFile]
    /\ producerDone = FALSE
    /\ pending = {}
    /\ completed = {}
    /\ tschema = [t \in TableNames |-> "absent"]
    /\ loaded = [k \in Keys |-> 0]
    /\ orphans = {}
    /\ faults = 0
    /\ run = [r \in RunIds |-> IdleRun]
    /\ dashboard = InitialDashboard
    /\ fileUpload = InitialFileUpload
    /\ calc \in {[NoColumn EXCEPT !.stage = "frame", !.frame = f] : f \in Frames}

NextColumns == BuildCreateTable

SpecColumns == InitColumns /\ [][NextColumns]_vars

\* ------------------------------------------------------------------------
\* Frontend: Dashboard (handleUpload and the stats counters)
\* ------------------------------------------------------------------------

\* Everything but the Dashboard stays as it is.
DashboardOnly ==
    UNCHANGED <<fileUpload, calc, content, producerDone, pending, completed, tschema, loaded,
                orphans, faults, run>>

\* Percentages a progress event may carry.
Percentages == {0, 50, 100}

\* Mutant: the updater returns only the field it counts (no ...prev).
Counted_WithoutSpread(prev, field) ==
    [f \in {"totalUploads", "successfulUploads", "failedUploads"} |->
        IF f = field THEN prev[f] + 1 ELSE 0]

\* setStats(prev => ({ ...prev, [field]: prev[field] + 1 }))
Counted(prev, field) == [prev EXCEPT ![field] = prev[field] + 1]

\* onDropXLSX / onDropCSV with a file
DropOnDashboard(t) ==
    /\ ~dashboard.selectedFiles[t]
    /\ dashboard' = [dashboard EXCEPT !.selectedFiles[t] = TRUE]
    /\ DashboardOnly

\* Date.now() moves on (it is read only by calls still to be made).
ClockTick ==
    /\ dashboard.now < MaxClock
    /\ \E u \in UploadSlots : dashboard.uploads[u].phase = "none"
    /\ dashboard' = [dashboard EXCEPT !.now = dashboard.now + 1]
    /\ DashboardOnly

\* The upload button of a selected file is clicked: handleUpload up to its
\* await (call u is the next one not made yet).
StartUpload(u, t) ==
    /\ dashboard.selectedFiles[t]
    /\ dashboard.uploads[u].phase = "none"
    /\ \A v \in UploadSlots : v < u => dashboard.uploads[v].phase # "none"
    /\ LET fileId == <<t, dashboard.now>>
       IN  dashboard' = [dashboard EXCEPT
               !.uploadProgress[fileId] = 0,
               !.uploadStatus[fileId] = "uploading",
               !.stats = Counted(dashboard.stats, "totalUploads"),
               !.uploads[u] = [phase |-> "uploading", type |-> t, fileId |-> fileId]]
    /\ DashboardOnly

\* upload.on('httpUploadProgress', ...)
UploadProgressEvent(u, percentage) ==
    /\ dashboard.uploads[u].phase = "uploading"
    /\ dashboard' = [dashboard EXCEPT !.uploadProgress[dashboard.uploads[u].fileId] = percentage]
    /\ DashboardOnly

\* await upload.done() resolves: the rest of the try block.
UploadSucceeds(u) ==
    /\ dashboard.uploads[u].phase = "uploading"
    /\ dashboard' = [dashboard EXCEPT
           !.uploadStatus[dashboard.uploads[u].fileId] = "complete",
           !.selectedFiles[dashboard.uploads[u].type] = FALSE,
           !.stats = Counted(dashboard.stats, "successfulUploads"),
           !.uploads[u].phase = "timer"]
    /\ DashboardOnly

\* The setTimeout callback, 3000 ms after the success.
UploadCleanup(u) ==
    /\ dashboard.uploads[u].phase = "timer"
    /\ dashboard' = [dashboard EXCEPT
           !.uploadProgress[dashboard.uploads[u].fileId] = -1,
           !.uploadStatus[dashboard.uploads[u].fileId] = "",
           !.uploads[u].phase = "settled"]
    /\ DashboardOnly

\* The S3Client/Upload construction or upload.done() throws: the catch block.
UploadFails(u) ==
    /\ dashboard.uploads[u].phase = "uploading"
    /\ dashboard' = [dashboard EXCEPT
           !.uploadStatus[dashboard.uploads[u].fileId] = "failed",
           !.stats = Counted(dashboard.stats, "failedUploads"),
           !.uploads[u].phase = "settled"]
    /\ DashboardOnly

InitDashboard ==
    /\ content = [k \in Keys |-> NoFile]
    /\ producerDone = FALSE
    /\ pending = {}
    /\ completed = {}
    /\ tschema = [t \in TableNames |-> "absent"]
    /\ loaded = [k \in Keys |-> 0]
    /\ orphans = {}
    /\ faults = 0
    /\ run = [r \in RunIds |-> IdleRun]
    /\ calc = NoColumn
    /\ dashboard = InitialDashboard
    /\ fileUpload = InitialFileUpload

NextDashboard ==
    \/ \E t \in Types : DropOnDashboard(t)
    \/ ClockTick
    \/ \E u \in UploadSlots : \E t \in Types : StartUpload(u, t)
    \/ \E u \in UploadSlots : \E p \in Percentages : UploadProgressEvent(u, p)
    \/ \E u \in UploadSlots : UploadSucceeds(u)
    \/ \E u \in UploadSlots : UploadCleanup(u)
    \/ \E u \in UploadSlots : UploadFails(u)

SpecDashboard == InitDashboard /\ [][NextDashboard]_vars

\* ------------------------------------------------------------------------
\* Frontend: FileUpload (handleUpload and the upload button)
\* ------------------------------------------------------------------------

FileUploadOnly ==
    UNCHANGED <<dashboard, calc, content, producerDone, pending, completed, tschema, loaded,
                orphans, faults, run>>

\* Names of the files the dropzone may hand over: one ends with '.xlsx',
\* one does not.
FileNames == {"a.xlsx", "b.XLSX"}

\* file.name.endsWith('.xlsx')
EndsWithXlsx(name) == name = "a.xlsx"

\* disabled={!selectedFile || uploadProgress > 0}
ButtonEnabled == fileUpload.selectedFile # "" /\ fileUpload.uploadProgress = 0

\* onDrop with a file
DropOnFileUpload(name) ==
    /\ fileUpload.selectedFile # name
    /\ fileUpload' = [fileUpload EXCEPT !.selectedFile = name]
    /\ FileUploadOnly

\* The enabled button is clicked: handleUpload(selectedFile) up to its
\* await (call u is the next one not made yet).
ClickUpload(u) ==
    /\ ButtonEnabled
    /\ fileUpload.uploads[u] = "none"
    /\ \A v \in UploadSlots : v < u => fileUpload.uploads[v] # "none"
    /\ IF fileUpload.selectedFile = ""
       THEN fileUpload' = [fileUpload EXCEPT !.uploadStatus = "Please select a file first"]
       ELSE IF ~EndsWithXlsx(fileUpload.selectedFile)
       THEN fileUpload' = [fileUpload EXCEPT !.uploadStatus = "Please upload only XLSX files",
                                             !.uploads[u] = "rejected"]
       ELSE fileUpload' = [fileUpload EXCEPT !.uploads[u] = "uploading"]
    /\ FileUploadOnly

\* upload.on('httpUploadProgress', ...): setUploadProgress(percentage)
FileProgressEvent(u, percentage) ==
    /\ fileUpload.uploads[u] = "uploading"
    /\ fileUpload' = [fileUpload EXCEPT !.uploadProgress = percentage]
    /\ FileUploadOnly

\* await upload.done() resolves.
FileUploadSucceeds(u) ==
    /\ fileUpload.uploads[u] = "uploading"
    /\ fileUpload' = [fileUpload EXCEPT !.uploadStatus = "Upload complete!",
                                        !.selectedFile = "",
                                        !.uploads[u] = "timer"]
    /\ FileUploadOnly

\* The setTimeout callback, 3000 ms after the success.
FileUploadReset(u) ==
    /\ fileUpload.uploads[u] = "timer"
    /\ fileUpload' = [fileUpload EXCEPT !.uploadProgress = 0, !.uploadStatus = "",
                                        !.uploads[u] = "settled"]
    /\ FileUploadOnly

\* The catch block.
FileUploadFails(u) ==
    /\ fileUpload.uploads[u] = "uploading"
    /\ fileUpload' = [fileUpload EXCEPT !.uploadStatus = "Upload failed. Please try again.",
                                        !.uploads[u] = "failed"]
    /\ FileUploadOnly

InitFileUpload ==
    /\ content = [k \in Keys |-> NoFile]
    /\ producerDone = FALSE
    /\ pending = {}
    /\ completed = {}
    /\ tschema = [t \in TableNames |-> "absent"]
    /\ loaded = [k \in Keys |-> 0]
    /\ orphans = {}
    /\ faults = 0
    /\ run = [r \in RunIds |-> IdleRun]
    /\ calc = NoColumn
    /\ dashboard = InitialDashboard
    /\ fileUpload = InitialFileUpload

NextFileUpload ==
    \/ \E name \in FileNames : DropOnFileUpload(name)
    \/ \E u \in UploadSlots : ClickUpload(u)
    \/ \E u \in UploadSlots : \E p \in Percentages : FileProgressEvent(u, p)
    \/ \E u \in UploadSlots : FileUploadSucceeds(u)
    \/ \E u \in UploadSlots : FileUploadReset(u)
    \/ \E u \in UploadSlots : FileUploadFails(u)

SpecFileUpload == InitFileUpload /\ [][NextFileUpload]_vars

\* ------------------------------------------------------------------------
\* Properties
\* ------------------------------------------------------------------------

Occurrences(seq, x) == Cardinality({i \in DOMAIN seq : seq[i] = x})

FailedKeys(me) == [i \in DOMAIN me.failed_files |-> me.failed_files[i].file]

ProcessedSet(me) == {me.processed_files[i] : i \in DOMAIN me.processed_files}

FailedSet(me) == {me.failed_files[i].file : i \in DOMAIN me.failed_files}

FailMessages(me, k) ==
    {me.failed_files[i].error : i \in {j \in DOMAIN me.failed_files : me.failed_files[j].file = k}}

\* C1: when the per-file loop is over, every key of the batch returned by
\* wait_for_file_processing is in exactly one of 'processed' and 'failed',
\* once, and the two lists hold no key outside the batch.
C1_EachKeyInExactlyOneList ==
    \A r \in RunIds : run[r].pc = "done" =>
        \A k \in Keys :
            Occurrences(run[r].processed_files, k) + Occurrences(FailedKeys(run[r]), k)
                = IF k \in run[r].files_to_process THEN 1 ELSE 0

C1_Witness ==
    \E r \in RunIds : /\ run[r].pc = "done"
                      /\ run[r].processed_files # <<>>
                      /\ run[r].failed_files # <<>>

\* C2 as stated: an error at any step, the existence check included, puts
\* the file in the failure list.
C2_EveryStepErrorFailsTheFile ==
    \A r \in RunIds : run[r].pc = "done" =>
        \A k \in run[r].raised \cup run[r].checkError : k \in FailedSet(run[r])

\* C2 (amended): an error that leaves the try body (fetch, parse, table
\* creation, bulk load, statement wait, verification, copy, delete) gives
\* exactly one failure entry for the file and no success entry, and the loop
\* goes on: every key of the batch ends in one of the lists.  An error of
\* the existence check is absorbed by check_table_exists.
C2_ErrorsAreIsolated ==
    \A r \in RunIds : run[r].pc = "done" =>
        /\ \A k \in run[r].raised :
              /\ Occurrences(FailedKeys(run[r]), k) = 1
              /\ k \notin ProcessedSet(run[r])
        /\ run[r].files_to_process \subseteq ProcessedSet(run[r]) \cup FailedSet(run[r])
        /\ FailedSet(run[r]) = run[r].raised

C2_Witness ==
    \E r \in RunIds : /\ run[r].pc = "done"
                      /\ Len(run[r].failed_files) >= 2
                      /\ run[r].checkError # {}

\* The one malformed file of the batch, if the batch has exactly one and all
\* its other files parse and hold rows.
OneMalformed(B, i) ==
    /\ i \in B
    /\ ~content[i].parse
    /\ \A k \in B \ {i} : content[k].parse /\ content[k].rows > 0

\* No two files of B that map to the same table differ in shape.
Compatible(B) ==
    \A j \in B : \A l \in B :
        content[j].parse /\ content[l].parse /\ TableName(j) = TableName(l)
            => content[j].schema = content[l].schema

\* C3 as stated: with one malformed file i among files that would each
\* succeed alone, and no fault of the remote services, the run reports
\* every other file as succeeded and file i as failed.
C3_AllOthersSucceed ==
    \A r \in RunIds : run[r].pc = "done" /\ faults = 0 =>
        \A i \in Keys : OneMalformed(run[r].files_to_process, i) =>
            /\ ProcessedSet(run[r]) = run[r].files_to_process \ {i}
            /\ FailedSet(run[r]) = {i}

\* C3 (amended): the same, for a batch whose other files do not map files
\* of different shapes to one table; the malformed file is reported once,
\* with the parse error.
C3_OthersSucceedWhenCompatible ==
    \A r \in RunIds : run[r].pc = "done" /\ faults = 0 =>
        \A i \in Keys :
            OneMalformed(run[r].files_to_process, i) /\ Compatible(run[r].files_to_process) =>
                /\ ProcessedSet(run[r]) = run[r].files_to_process \ {i}
                /\ FailedSet(run[r]) = {i}
                /\ Occurrences(FailedKeys(run[r]), i) = 1
                /\ FailMessages(run[r], i) = {"Error tokenizing data"}

C3_Witness ==
    \E r \in RunIds : /\ run[r].pc = "done" /\ faults = 0
                      /\ run[r].files_to_process = Keys
                      /\ OneMalformed(Keys, <<"1">>)
                      /\ Compatible(Keys)
                      /\ Len(run[r].processed_files) = 2

\* C4: a file whose row-count query returned 0 after its COPY finished is in
\* the failure list with the 'No data was loaded' message, is not in the
\* success list and has not been relocated.
C4_ZeroRowsIsAFailure ==
    \A r \in RunIds : \A k \in Keys :
        <<k, 0>> \in run[r].verified =>
            /\ FailMessages(run[r], k) = {"No data was loaded"}
            /\ k \notin ProcessedSet(run[r])
            /\ k \in pending
            /\ k \notin completed

C4_Witness == \E r \in RunIds : \E k \in Keys : <<k, 0>> \in run[r].verified

\* C5 as stated: once the listing has stopped changing, what
\* wait_for_file_processing returned is the final listing.
C5_ReturnsFinalListing ==
    \A r \in RunIds :
        run[r].pc = "loop" /\ run[r].discovery.exit # "none" /\ producerDone /\ faults = 0
            => run[r].files_to_process = pending

\* C5 (amended): through its stability exit wait_for_file_processing
\* returns the set it listed last, and only after at least 12 consecutive
\* polls listed that same set.
C5_StableExitAfterThreshold ==
    \A r \in RunIds :
        run[r].pc = "loop" /\ run[r].discovery.exit = "stable" =>
            /\ run[r].discovery.sameCount >= StableThreshold
            /\ run[r].files_to_process = run[r].discovery.lastListing

C5_Witness ==
    \E r \in RunIds : /\ run[r].pc = "loop" /\ run[r].discovery.exit = "stable"
                      /\ run[r].files_to_process # {}
                      /\ run[r].discovery.sameCount > StableThreshold

\* C6: wait_for_file_processing never raises; through its max-wait exit it
\* returns the set of the most recent listing, and a listing call that
\* raises is absorbed (the run does not end with statusCode 500 for it).
C6_TimeoutReturnsLastListing ==
    \A r \in RunIds :
        /\ run[r].pc = "loop" /\ run[r].discovery.exit = "timeout" =>
              run[r].files_to_process = run[r].discovery.lastListing
        /\ run[r].pc = "error500" => run[r].discovery = NoDiscovery
        /\ run[r].pc = "discover" => run[r].statusCode = 0

C6_Witness ==
    \E r \in RunIds : /\ run[r].pc = "loop" /\ run[r].discovery.exit = "timeout"
                      /\ run[r].files_to_process # {}
                      /\ run[r].discovery.sameCount <= StableThreshold

\* C7: wait_for_query_completion returns only on FINISHED, raises at once on
\* FAILED or ABORTED, raises the timeout after 60 polls that all read a
\* non-terminal status, and never makes more than 60 describe_statement
\* calls for one statement.
C7_WaitOutcome ==
    \A r \in RunIds :
        LET w == run[r].wait
        IN  /\ w.exit = "return" <=> w.observed = "FINISHED"
            /\ w.exit = "raise_failed" <=> w.observed \in {"FAILED", "ABORTED"}
            /\ w.exit = "raise_timeout" <=> (w.observed = "RUNNING" /\ w.polls = max_retries)
            /\ w.polls <= max_retries
            /\ run[r].retry_count < max_retries

C7_Witness ==
    \E r \in RunIds : run[r].wait.exit = "raise_timeout" /\ run[r].wait.polls = max_retries

\* C8: every started run ends with a result, whatever the remote store does.
C8_RunTerminates ==
    \A r \in RunIds : (run[r].pc # "idle") ~> (run[r].pc \in {"done", "error500"})

C8_Witness ==
    \E r \in RunIds : /\ run[r].pc = "done"
                      /\ \E k \in Keys :
                            "Query timed out waiting for completion" \in FailMessages(run[r], k)

\* File k parses and has the shape of its table.
FitsTable(k) == content[k].parse /\ tschema[TableName(k)] = content[k].schema

\* C9 as stated: at the end of a run every file (that fits its table)
\* either is reported as succeeded with all its rows in the table, or is
\* reported as failed with none of its rows in the table.
C9_LoadedOrUntouched ==
    \A r \in RunIds : run[r].pc = "done" =>
        \A k \in run[r].files_to_process : FitsTable(k) =>
            \/ k \in ProcessedSet(run[r]) /\ loaded[k] = content[k].rows
            \/ k \in FailedSet(run[r]) /\ loaded[k] = 0

\* C10 as stated: a file (that fits its table) reported as failed by one
\* run and as succeeded by a later run is in the table once.
C10_RetryLoadsOnce ==
    \A k \in Keys :
        /\ run[1].pc = "done" /\ k \in FailedSet(run[1])
        /\ run[2].pc = "done" /\ k \in ProcessedSet(run[2])
        /\ FitsTable(k)
        => loaded[k] = content[k].rows


\* C11: a file the conversion wrote is never lost: in every state, with
\* overlapping runs, failing calls and a run interrupted between copy_object
\* and delete_object, it is under processed/ or under completed/ (so the
\* pending object is deleted only when the completed copy exists).
C11_NeverLost ==
    \A k \in Keys : content[k] # NoFile => k \in pending \/ k \in completed

C11_Witness ==
    \E r \in RunIds : \E q \in RunIds \ {r} :
        /\ run[r].pc = "crashed"
        /\ run[r].key \in pending \cap completed
        /\ run[q].pc \in WaitPcs
        /\ run[q].key = run[r].key

\* C12: when a run that no other run overlaps returns, every file of its
\* failure list is still under processed/, and every file of its success
\* list is no longer under processed/ and is under completed/.
C12_ListsMatchLocations ==
    \A r \in RunIds : run[r].pc = "done" =>
        /\ \A k \in FailedSet(run[r]) : k \in pending
        /\ \A k \in ProcessedSet(run[r]) : k \notin pending /\ k \in completed

C12_Witness ==
    \E r \in RunIds : /\ run[r].pc = "done"
                      /\ ProcessedSet(run[r]) # {}
                      /\ \E k \in FailedSet(run[r]) :
                            /\ k \in pending \cap completed
                            /\ "delete_object failed" \in FailMessages(run[r], k)

\* C13: a run returns statusCode 500 only for an error before any file is
\* attempted (no key fetched, both lists empty); a run that has entered the
\* per-file loop returns statusCode 200 with the two lists, whatever errors
\* its files raised.
C13_WholeRunFailureOnlyBeforeLoop ==
    \A r \in RunIds :
        /\ run[r].statusCode = 500 =>
              /\ run[r].pc = "error500"
              /\ run[r].key = <<>> /\ run[r].raised = {}
              /\ run[r].processed_files = <<>> /\ run[r].failed_files = <<>>
        /\ run[r].pc = "error500" => run[r].statusCode = 500
        /\ run[r].pc = "done" => run[r].statusCode = 200
        /\ run[r].pc \notin {"done", "error500"} => run[r].statusCode = 0

C13_Witness ==
    \E r \in RunIds : /\ run[r].pc = "done" /\ run[r].statusCode = 200
                      /\ run[r].processed_files = <<>>
                      /\ Cardinality(run[r].raised) >= 2

\* C14 as stated: a run during which every listing call failed (here with
\* files waiting under processed/) ends as a whole-run failure (statusCode
\* 500), not as a run over an empty batch.
C14_OutageIsWholeRunFailure ==
    \A r \in RunIds :
        run[r].pc \in {"done", "error500"} /\ pending # {} => run[r].statusCode = 500

\* C15: the key named in the event decides nothing: whatever triggering_key
\* is, the batch of the run is exactly the set its last listing returned,
\* and only keys of that batch are fetched and reported; so the triggering
\* file is processed only if the listing contained it.
C15_TriggeringKeyOnlyLogged ==
    \A r \in RunIds :
        /\ run[r].pc = "loop" /\ run[r].discovery.exit # "none" =>
              /\ run[r].files_to_process = run[r].discovery.lastListing
              /\ run[r].todo = run[r].files_to_process
        /\ run[r].key # <<>> => run[r].key \in run[r].files_to_process
        /\ ProcessedSet(run[r]) \cup FailedSet(run[r]) \cup run[r].todo
               \subseteq run[r].files_to_process

C15_Witness ==
    \E r \in RunIds : /\ run[r].pc = "loop" /\ run[r].discovery.exit # "none"
                      /\ run[r].triggering_key \in pending
                      /\ run[r].triggering_key \notin run[r].files_to_process
                      /\ run[r].files_to_process # {}

\* C16: clean_column_name is idempotent: applied to a name it produced, it
\* returns that name, the placeholder of the empty header and the prefixed
\* names included.
C16_CleanIsIdempotent ==
    calc.stage = "recleaned" => calc.again = calc.cleaned

C16_Witness ==
    /\ calc.stage = "recleaned"
    /\ calc.column = <<"1", "A", "-">>
    /\ calc.cleaned = col_prefix \o <<"1", "a", "_">>

AllOf(values, kind) == NonNull(values) = Kinds(values, {kind})

\* The type the stated priority order gives, decided on the non-null
\* values only.
StatedType(values) ==
    IF NonNull(values) = {} THEN "VARCHAR"
    ELSE IF AllOf(values, "date") THEN "TIMESTAMP"
    ELSE IF AllOf(values, "bool") THEN "BOOLEAN"
    ELSE IF AllOf(values, "int") THEN "BIGINT"
    ELSE IF NonNull(values) = Kinds(values, {"int", "decimal"}) THEN "DECIMAL(18,2)"
    ELSE "VARCHAR"

\* C17 as stated: the type of a column is decided on its non-null values in
\* the priority order date/time, boolean, integer, decimal, text (so a
\* column of dates is TIMESTAMP and empty cells change nothing).
C17_TypeByStatedPriority ==
    calc.stage = "typed" => calc.sqltype[1] = StatedType(calc.values)

\* C18: the columns of a table are fixed when it is created: no step of any
\* run changes the definition of an existing table, a creation statement is
\* issued only right after the existence check, and never after a check that
\* finished, was read, and found the table (the run goes on to the COPY
\* without looking at the table's columns).
C18_SchemaFixedAtCreation ==
    [][/\ \A t \in TableNames : tschema[t] # "absent" => tschema'[t] = tschema[t]
       /\ \A r \in RunIds :
             run'[r].pc = "create_exec" /\ run[r].pc # "create_exec" =>
                 /\ run[r].pc \in {"check_exec", "check_wait"}
                 /\ (/\ run[r].pc = "check_wait"
                     /\ run'[r].wait.observed = "FINISHED"
                     /\ faults' = faults)
                    => tschema[TableName(run[r].key)] = "absent"]_vars

C18_Witness ==
    /\ run[1].pc = "done"
    /\ run[2].pc = "copy_exec"
    /\ run[2].key \notin run[2].checkError
    /\ tschema[TableName(run[2].key)] \notin {"absent", content[run[2].key].schema}

\* C19: when two overlapping runs both find the table absent and both issue
\* CREATE TABLE IF NOT EXISTS, the duplicate creation is absorbed: a wait for
\* a creation ends in an error only by a fault of the service, never because
\* the table already exists, and once a creation has returned the one table
\* of that name exists.
C19_DuplicateCreationAbsorbed ==
    \A r \in RunIds :
        run[r].wait.stmt = "create_wait" =>
            /\ run[r].wait.exit \in {"raise_failed", "raise_timeout"} => faults > 0
            /\ run[r].wait.exit = "return" =>
                  tschema[TableName(run[r].key)] = content[run[r].key].schema

C19_Witness ==
    /\ faults = 0
    /\ \A r \in RunIds : /\ run[r].pc = "copy_exec"
                         /\ run[r].key = <<"a">>
                         /\ run[r].wait.stmt = "create_wait"
                         /\ run[r].wait.exit = "return"

\* The runs that report file k as succeeded.
SucceededIn(k) == {r \in RunIds : k \in ProcessedSet(run[r])}

\* C20: nothing keeps two overlapping runs from loading the same pending
\* file: each run that reports the file as succeeded has had its own COPY
\* finish, so the table holds the file's rows at least once per such run
\* (twice when both runs report it).
C20_EachSuccessLoadedTheFile ==
    \A k \in Keys :
        content[k].parse => loaded[k] >= content[k].rows * Cardinality(SucceededIn(k))

C20_Witness ==
    /\ \A r \in RunIds : run[r].pc = "done" /\ ProcessedSet(run[r]) = {<<"a">>}
    /\ loaded[<<"a">>] = 2 * content[<<"a">>].rows
    /\ content[<<"a">>].rows > 0
    /\ <<"a">> \notin pending /\ <<"a">> \in completed

\* C21 as stated: a set returned through the stability exit was listed 13
\* times in a row (its first observation and 12 unchanged polls after it),
\* the empty set included.
C21_StableAfterThirteenListings ==
    \A r \in RunIds :
        run[r].pc = "loop" /\ run[r].discovery.exit = "stable" =>
            run[r].discovery.sameCount >= StableThreshold + 1

\* Run r has read a row count greater than zero for key k.
VerifiedPositive(me, k) == \E v \in me.verified : v[1] = k /\ v[2] > 0

\* C22: the steps of one file gate one another: the COPY is executed only
\* after the existence check finished and found the table or the creation
\* statement finished; the row-count query only after the COPY finished;
\* copy_object only after a row count greater than zero was read; and an
\* object appears under completed/ only by the copy_object of a run that
\* read such a count for it.
C22_StepsGateOneAnother ==
    [][/\ \A r \in RunIds :
             /\ run'[r].pc = "copy_exec" /\ run[r].pc # "copy_exec" =>
                   /\ run[r].pc \in {"check_wait", "create_wait"}
                   /\ run'[r].wait.stmt = run[r].pc
                   /\ run'[r].wait.observed = "FINISHED"
                   /\ run[r].pc = "check_wait" => tschema[TableName(run[r].key)] # "absent"
                   /\ run[r].pc = "create_wait" => tschema'[TableName(run[r].key)] # "absent"
             /\ run'[r].pc = "verify_exec" /\ run[r].pc # "verify_exec" =>
                   /\ run[r].pc = "copy_wait"
                   /\ run'[r].wait.observed = "FINISHED"
             /\ run'[r].pc = "move_copy" /\ run[r].pc # "move_copy" =>
                   /\ run[r].pc = "verify_wait"
                   /\ run'[r].wait.observed = "FINISHED"
                   /\ VerifiedPositive(run'[r], run[r].key)
       /\ \A k \in completed' \ completed :
             \E r \in RunIds : /\ run[r].pc = "move_copy" /\ run[r].key = k
                               /\ VerifiedPositive(run[r], k)]_vars

C22_Witness ==
    \E r \in RunIds : /\ run[r].pc = "move_delete"
                      /\ run[r].key \in completed
                      /\ VerifiedPositive(run[r], run[r].key)
                      /\ run[r].key \in run[r].checkError

\* C23 as stated: a file whose COPY added no row to the table is reported
\* as failed and is not relocated, whatever the table held before.
C23_NoOpLoadIsAFailure ==
    \A r \in RunIds : run[r].pc = "done" /\ faults = 0 =>
        \A k \in run[r].files_to_process :
            content[k].parse /\ loaded[k] = 0 =>
                /\ k \in FailedSet(run[r])
                /\ k \notin completed

\* C24 as stated: the creation statement holds exactly one column
\* definition per column of the parsed file, in file order, each named by
\* the sanitized header, also when two headers sanitize to one name.
C24_OneDefinitionPerColumn ==
    calc.stage = "sql" =>
        /\ Len(calc.column_definitions) = Len(calc.frame)
        /\ \A i \in DOMAIN calc.frame :
              calc.column_definitions[i][1] = clean_column_name(calc.frame[i].name)

FetchOrParseErrors == {"get_object failed", "Error tokenizing data"}

\* C25: a file that cannot be fetched or parsed gets its failure entry in
\* the step that fetches it: no statement, copy or delete comes between
\* (the step changes nothing in the store or the engine), the first
\* statement of a file is executed only for a file that was fetched and
\* parsed, and the failed file is still under processed/.
C25_FetchFailureBeforeAnyStatement ==
    [][\A r \in RunIds :
          /\ run[r].pc = "loop" /\ run'[r].pc = "check_exec" =>
                content[run'[r].key].parse /\ run'[r].key \in pending
          /\ run'[r].pc \in ExecPcs \cup WaitPcs \cup {"move_copy", "move_delete"} =>
                content[run'[r].key].parse
          /\ Len(run'[r].failed_files) > Len(run[r].failed_files) =>
                LET entry == run'[r].failed_files[Len(run'[r].failed_files)]
                IN  entry.error \in FetchOrParseErrors <=> run[r].pc = "loop"
          /\ run[r].pc = "loop" /\ Len(run'[r].failed_files) > Len(run[r].failed_files) =>
                /\ UNCHANGED <<pending, completed, tschema, loaded, orphans>>
                /\ run'[r].key \in pending
                /\ run'[r].key \notin completed]_vars

C25_Witness ==
    \E r \in RunIds : /\ run[r].pc = "loop"
                      /\ FailMessages(run[r], run[r].key) = {"Error tokenizing data"}
                      /\ run[r].key \in pending
                      /\ tschema[TableName(run[r].key)] = "absent"
                      /\ ProcessedSet(run[r]) # {}
                      /\ run[r].todo # {}

RECURSIVE LongestString(_)
\* The length of the longest non-null value of the column.
LongestString(values) ==
    IF values = <<>> THEN 0
    ELSE LET rest == LongestString(Tail(values))
             len == IF Head(values).kind = "null" THEN 0 ELSE Head(values).len
         IN  IF len > rest THEN len ELSE rest

\* Lengths around the two clamps.
LengthProbes == {0, 1, 127, 128, 129, 200, 32767, 32768, 40000}

\* C26: for a column typed as text the capacity is
\* min(max(2 * max_length, 256), 65535), max_length being the longest string
\* of the column, and lies within 256..65535.
C26_VarcharCapacity ==
    /\ \A n \in LengthProbes :
          /\ varchar_length(n) = (IF 2 * n < 256 THEN 256 ELSE IF 2 * n > 65535 THEN 65535 ELSE 2 * n)
          /\ varchar_length(n) \in 256..65535
    /\ calc.stage = "typed" /\ calc.dtype = "object" /\ NonNull(calc.values) # {} =>
          /\ calc.sqltype[1] = "VARCHAR"
          /\ calc.sqltype[2] = Min(Max(2 * LongestString(calc.values), 256), 65535)
          /\ calc.sqltype[2] \in 256..65535

C26_Witness ==
    /\ calc.stage = "typed"
    /\ calc.values = <<Cell("text", 200), Cell("null", 3), Cell("text", 1)>>
    /\ calc.sqltype = <<"VARCHAR", 400>>

\* C27: an existence check that gives no count does not fail the file: no
\* step of the check adds a failure entry; a check whose execution raises,
\* whose wait raises (FAILED, ABORTED, timeout) or whose result cannot be
\* fetched is followed by the creation statement; only a check that
\* finished goes on to the COPY.
C27_CheckWithoutCountGoesToCreate ==
    [][\A r \in RunIds :
          run[r].pc \in {"check_exec", "check_wait"} =>
              /\ run'[r].failed_files = run[r].failed_files
              /\ run'[r].pc \in {"check_exec", "check_wait", "create_exec", "copy_exec"}
              /\ run'[r].pc = "copy_exec" =>
                    run'[r].wait.observed = "FINISHED" /\ faults' = faults
              /\ run'[r].checkError # run[r].checkError => run'[r].pc = "create_exec"
              /\ run[r].pc = "check_wait" /\ run'[r].pc # "check_wait" /\ faults' # faults =>
                    run'[r].pc = "create_exec"]_vars

C27_Witness ==
    \E r \in RunIds : /\ run[r].pc = "create_exec"
                      /\ run[r].wait.stmt = "check_wait"
                      /\ run[r].wait.exit = "raise_timeout"
                      /\ run[r].failed_files = <<>>

InFlight == {u \in UploadSlots : dashboard.uploads[u].phase = "uploading"}

Started == {u \in UploadSlots : dashboard.uploads[u].phase # "none"}

\* C28: in the Dashboard, with uploads running concurrently,
\* successfulUploads + failedUploads never exceeds totalUploads: every
\* started upload is counted once in totalUploads and, once settled, once as
\* successful or failed; the two sides are equal when no upload is in flight.
C28_StatsAddUp ==
    /\ dashboard.stats.totalUploads = Cardinality(Started)
    /\ dashboard.stats.successfulUploads + dashboard.stats.failedUploads
           = Cardinality(Started \ InFlight)
    /\ dashboard.stats.successfulUploads + dashboard.stats.failedUploads
           <= dashboard.stats.totalUploads
    /\ InFlight = {} =>
           dashboard.stats.successfulUploads + dashboard.stats.failedUploads
               = dashboard.stats.totalUploads

C28_Witness ==
    /\ Cardinality(InFlight) = 1
    /\ dashboard.stats = [totalUploads |-> 3, successfulUploads |-> 1, failedUploads |-> 1]
    /\ \E u \in UploadSlots : \E v \in UploadSlots :
          /\ u # v
          /\ dashboard.uploads[u].fileId = dashboard.uploads[v].fileId
          /\ dashboard.uploads[u].phase = "uploading"

\* C29 as stated: once an upload attempt of FileUpload has failed and no
\* other upload is running or waiting for its reset timer, the upload
\* button is enabled for the file that is still selected.
C29_RetryPossibleAfterFailure ==
    /\ fileUpload.uploadStatus = "Upload failed. Please try again."
    /\ \A u \in UploadSlots : fileUpload.uploads[u] \notin {"uploading", "timer"}
    => ButtonEnabled
====
